---- MODULE Spec2Model ----
(***************************************************************************)
(* Cafe recommendation service: the recommendation engine                  *)
(* (RecommendationService.filter_and_rank_cafes), the in-memory identity   *)
(* store (UserService) behind the register endpoint, and the token         *)
(* service (AuthService.create_access_token / verify_token).               *)
(*                                                                         *)
(* Python Optional values are encoded as sequences: None is <<>> and a     *)
(* present value v is <<v>>.  Ratings are in tenths (4.0 is 40), times in  *)
(* whole seconds (the resolution of the exp / iat claims of a JWT).        *)
(***************************************************************************)
EXTENDS Integers, Sequences, FiniteSets, TLC

VARIABLES
    \* ---- RecommendationService.filter_and_rank_cafes ----
    cafes,                 \* the input list
    min_rating,            \* argument, tenths
    allowed_price_ranges,  \* argument, Optional list (as a set) of PriceRange
    limit,                 \* argument, Optional int
    filtered,              \* local after the two filters
    sorted_cafes,          \* local after sorted(), before the limit
    result,                \* the returned list
    result_ref,            \* which list object the returned list is
    rec_pc,                \* "input" before the call, "done" after it
    \* ---- identity store and the register endpoint ----
    user_service_instance, \* module global _user_service_instance
    stores,                \* every UserService object constructed so far
    next_id,               \* source of fresh user ids (uuid4)
    reqs,                  \* the in-flight register requests
    last_create,           \* the last direct UserService.create_user call
    last_lookup,           \* the last direct lookup on a UserService object
    \* ---- token service ----
    now,                   \* the clock (utcnow), whole seconds
    issued,                \* tokens returned by create_access_token
    issues,                \* the create_access_token calls made so far
    last_verify,           \* the last verify_token call
    \* ---- SearchService.search_cafes ----
    latitude,              \* argument, whole degrees
    longitude,             \* argument, whole degrees
    results,               \* what the Places client returned
    search_result,         \* what search_cafes returned or raised
    search_pc,             \* "input", "awaiting" the client, "done"
    \* ---- domain models: Cafe.__eq__, PriceRange.from_google_price_level ----
    eq_self,               \* left operand of ==
    eq_other,              \* right operand of ==
    eq_result,             \* Optional: what == returned
    price_level_arg,       \* argument, Optional int
    price_category,        \* Optional: what from_google_price_level returned
    \* ---- GET /search and GET /recommendations ----
    requests,              \* the requests in flight and their responses
    \* ---- the login endpoint and the authentication guards ----
    last_login,            \* the last POST /auth/login and its response
    last_guard             \* the last request that went through a guard

rec_vars == <<cafes, min_rating, allowed_price_ranges, limit,
              filtered, sorted_cafes, result, result_ref, rec_pc>>
store_vars == <<user_service_instance, stores, next_id, reqs, last_create,
                last_lookup>>
token_vars == <<now, issued, issues, last_verify>>
domain_vars == <<eq_self, eq_other, eq_result, price_level_arg,
                 price_category>>
http_vars == <<requests>>
search_vars == <<latitude, longitude, results, search_result, search_pc,
                 domain_vars, http_vars>>
auth_vars == <<last_login, last_guard>>
vars == <<rec_vars, store_vars, token_vars, search_vars, auth_vars>>

None == <<>>
Some(v) == <<v>>
IsNone(o) == Len(o) = 0
Val(o) == o[1]

Min(a, b) == IF a <= b THEN a ELSE b

----------------------------------------------------------------------------
(* Bounds *)
MaxCafes == 3
MaxLimit == 2

----------------------------------------------------------------------------
(* Domain model: Cafe, Rating, PriceRange *)

PriceRange == {"CHEAP", "MEDIUM", "HIGH", "VERY_HIGH", "LUXURY", "UNKNOWN"}

\* the price categories the modelled places carry
CafePrices == {"CHEAP", "MEDIUM"}

\* Rating.value, validated to 0.0 .. 5.0; the values used are 3.5 and 4.0
RatingValues == {35, 40}

\* distance_meters: Optional[float]
DistanceValues == {None, Some(500), Some(1000)}

Cafe == [id : 1..MaxCafes, rating : RatingValues,
         price_range : CafePrices, distance_meters : DistanceValues]

\* the lists a caller can pass: the i-th place carries identifier i
RECURSIVE CafeLists(_)
CafeLists(n) ==
    IF n = 0 THEN {<<>>}
    ELSE LET shorter == CafeLists(n - 1)
         IN  shorter \cup
             { Append(s, c) : s \in {t \in shorter : Len(t) = n - 1},
                              c \in {d \in Cafe : d.id = n} }

----------------------------------------------------------------------------
(* RecommendationService.filter_and_rank_cafes *)

\* line 44: cafe.rating.value >= min_rating
PassesRatingStrict(cafe, minr) == cafe.rating > minr
PassesRating(cafe, minr) == cafe.rating >= minr

\* line 48: `if allowed_price_ranges:` is false for None and for []
PriceFilterActive(allowed) == ~IsNone(allowed) /\ Val(allowed) # {}

\* line 51: cafe.price_range in allowed_price_ranges
PassesPrice(cafe, allowed) == cafe.price_range \in Val(allowed)

FilterCafesConcat(cs, minr, allowed) ==
    LET byRating == SelectSeq(cs, LAMBDA c : PassesRating(c, minr))
    IN  IF PriceFilterActive(allowed)
        THEN byRating \o SelectSeq(byRating, LAMBDA c : PassesPrice(c, allowed))
        ELSE byRating
FilterCafes(cs, minr, allowed) ==
    LET byRating == SelectSeq(cs, LAMBDA c : PassesRating(c, minr))
    IN  IF PriceFilterActive(allowed)
        THEN SelectSeq(byRating, LAMBDA c : PassesPrice(c, allowed))
        ELSE byRating

\* lines 59-62: key = (-rating, distance or float('inf')); +infinity is the
\* pair <<1, 0>>, above every finite distance <<0, d>>
SortKeyMissingFirst(cafe) ==
    <<0 - cafe.rating,
      IF ~IsNone(cafe.distance_meters) THEN 0 ELSE 0,
      IF ~IsNone(cafe.distance_meters) THEN Val(cafe.distance_meters) ELSE 0>>
SortKey(cafe) ==
    <<0 - cafe.rating,
      IF ~IsNone(cafe.distance_meters) THEN 0 ELSE 1,
      IF ~IsNone(cafe.distance_meters) THEN Val(cafe.distance_meters) ELSE 0>>

\* tuple comparison k1 < k2 as Python compares tuples
KeyLess(k1, k2) ==
    \/ k1[1] < k2[1]
    \/ k1[1] = k2[1] /\ k1[2] < k2[2]
    \/ k1[1] = k2[1] /\ k1[2] = k2[2] /\ k1[3] < k2[3]

\* sorted() is stable: an element goes after every element already placed
\* whose key is not greater than its own
RECURSIVE InsertBeforeEqual(_, _)
InsertBeforeEqual(x, s) ==
    IF s = <<>> THEN <<x>>
    ELSE IF ~KeyLess(SortKey(Head(s)), SortKey(x)) THEN <<x>> \o s
    ELSE <<Head(s)>> \o InsertBeforeEqual(x, Tail(s))
RECURSIVE InsertSorted(_, _)
InsertSorted(x, s) ==
    IF s = <<>> THEN <<x>>
    ELSE IF KeyLess(SortKey(x), SortKey(Head(s))) THEN <<x>> \o s
    ELSE <<Head(s)>> \o InsertSorted(x, Tail(s))

RECURSIVE Sorted(_)
Sorted(s) ==
    IF s = <<>> THEN <<>>
    ELSE InsertSorted(s[Len(s)], Sorted(SubSeq(s, 1, Len(s) - 1)))

\* lines 66-67: `if limit and limit > 0: sorted_cafes = sorted_cafes[:limit]`
ApplyLimitOffByOne(s, lim) ==
    IF ~IsNone(lim) /\ Val(lim) # 0 /\ Val(lim) > 0
    THEN SubSeq(s, 1, Min(Val(lim) + 1, Len(s)))
    ELSE s
ApplyLimit(s, lim) ==
    IF ~IsNone(lim) /\ Val(lim) # 0 /\ Val(lim) > 0
    THEN SubSeq(s, 1, Min(Val(lim), Len(s)))
    ELSE s

MinRatings == {0, 40}
AllowedValues == {None, Some({}), Some({"CHEAP"})}
LimitValues == {None} \cup {Some(n) : n \in (0 - 1)..MaxLimit}

RecInit ==
    /\ cafes \in CafeLists(MaxCafes)
    /\ min_rating \in MinRatings
    /\ allowed_price_ranges \in AllowedValues
    /\ limit \in LimitValues
    /\ filtered = <<>>
    /\ sorted_cafes = <<>>
    /\ result = <<>>
    /\ result_ref = None
    /\ rec_pc = "input"

\* List objects are numbered in the order they are made; the caller's list
\* is object 0.  The comprehension of lines 42-45, the comprehension of
\* lines 49-52, sorted() and the slice each make a new list object.
InputRef == 0
NewLists(allowed, lim) ==
    1 + (IF PriceFilterActive(allowed) THEN 1 ELSE 0) + 1
      + (IF ~IsNone(lim) /\ Val(lim) # 0 /\ Val(lim) > 0 THEN 1 ELSE 0)

filter_and_rank_cafes_in_place ==
    /\ rec_pc = "input"
    /\ cafes' = Sorted(cafes)
    /\ filtered' = FilterCafes(cafes', min_rating, allowed_price_ranges)
    /\ sorted_cafes' = filtered'
    /\ result' = ApplyLimit(sorted_cafes', limit)
    /\ result_ref' = Some(InputRef)
    /\ rec_pc' = "done"
    /\ UNCHANGED <<min_rating, allowed_price_ranges, limit>>
    /\ UNCHANGED <<store_vars, token_vars, search_vars, auth_vars>>
filter_and_rank_cafes ==
    /\ rec_pc = "input"
    /\ filtered' = FilterCafes(cafes, min_rating, allowed_price_ranges)
    /\ sorted_cafes' = Sorted(filtered')
    /\ result' = ApplyLimit(sorted_cafes', limit)
    /\ result_ref' = Some(InputRef + NewLists(allowed_price_ranges, limit))
    /\ rec_pc' = "done"
    /\ UNCHANGED <<cafes, min_rating, allowed_price_ranges, limit>>
    /\ UNCHANGED <<store_vars, token_vars, search_vars, auth_vars>>

----------------------------------------------------------------------------
(* Identity store: UserService, get_user_service, the register endpoint *)

MaxReqs == 2

\* an email is a string of characters; str.lower() works character by
\* character
LowerChar(ch) ==
    CASE ch = "A" -> "a"
      [] ch = "B" -> "b"
      [] OTHER -> ch
Lower(email) == [i \in DOMAIN email |-> LowerChar(email[i])]

Emails == {<<"a", "b">>, <<"A", "b">>, <<"b", "a">>}
Passwords == {"password1", "password2"}
Salts == {"salt1"}

\* AuthService.hash_password: bcrypt digest under a fresh random salt
hash_password(password, salt) == <<"bcrypt", salt, password>>

\* User(email=..., hashed_password=...): a fresh id, active
User(uid, email, hashed_password, created) ==
    [id |-> uid, email |-> email, hashed_password |-> hashed_password,
     is_active |-> TRUE, created_at |-> created]

\* UserService.__init__
EmptyStore == [users |-> <<>>, email_index |-> <<>>]

\* dict lookup / dict assignment on a TLA+ function
Has(d, k) == k \in DOMAIN d
Put(d, k, v) == [x \in DOMAIN d \cup {k} |-> IF x = k THEN v ELSE d[x]]

\* UserService.user_exists
user_exists(store, email) == Has(store.email_index, Lower(email))

\* UserService.get_user_by_email: Optional[User]
get_user_by_email_exact(store, email) ==
    IF Has(store.email_index, email)
    THEN LET user_id == store.email_index[email]
         IN  IF Has(store.users, user_id) THEN Some(store.users[user_id])
             ELSE None
    ELSE None
get_user_by_email(store, email) ==
    IF Has(store.email_index, Lower(email))
    THEN LET user_id == store.email_index[Lower(email)]
         IN  IF Has(store.users, user_id) THEN Some(store.users[user_id])
             ELSE None
    ELSE None

\* UserService.get_user_by_id: Optional[User]
get_user_by_id(store, user_id) ==
    IF Has(store.users, user_id) THEN Some(store.users[user_id]) ELSE None

\* UserService.create_user: the store after the call and what the call
\* gave back (the user, or ValueError raised)
create_user_no_check(store, email, hashed_password, uid, created) ==
    LET user == User(uid, Lower(email), hashed_password, created)
    IN  [raised |-> FALSE, user |-> Some(user),
         store |-> [users |-> Put(store.users, uid, user),
                    email_index |-> Put(store.email_index, Lower(email), uid)]]
create_user(store, email, hashed_password, uid, created) ==
    IF Has(store.email_index, Lower(email))
    THEN [raised |-> TRUE, user |-> None, store |-> store]
    ELSE LET user == User(uid, Lower(email), hashed_password, created)
         IN  [raised |-> FALSE, user |-> Some(user),
              store |-> [users |-> Put(store.users, uid, user),
                         email_index |->
                             Put(store.email_index, Lower(email), uid)]]

\* uuid4(): an identifier no earlier user carries
FreshId(n) == ToString(n)

IdleReq == [pc |-> "idle", email |-> <<>>, svc |-> 0, status |-> 0,
            user_id |-> ""]

NoCreate == [called |-> FALSE, svc |-> 0, email |-> <<>>, raised |-> FALSE]

NoLookup == [op |-> "", email |-> <<>>, user_id |-> "", found |-> FALSE,
             user |-> None]

StoreInit ==
    /\ user_service_instance = None
    /\ stores = <<>>
    /\ next_id = 1
    /\ reqs = [r \in 1..MaxReqs |-> IdleReq]
    /\ last_create = NoCreate
    /\ last_lookup = NoLookup

\* a POST /auth/register arrives; FastAPI resolves Depends(get_user_service),
\* a plain function, in a worker thread before it runs the handler
ReceiveRegister(r, email) ==
    /\ reqs[r].pc = "idle"
    /\ reqs' = [reqs EXCEPT ![r].pc = "dep_check", ![r].email = email]
    /\ UNCHANGED <<user_service_instance, stores, next_id, last_create,
                   last_lookup>>
    /\ UNCHANGED <<rec_vars, token_vars, search_vars, auth_vars>>

\* get_user_service, `if _user_service_instance is None:`
GetUserServiceCheck(r) ==
    /\ reqs[r].pc = "dep_check"
    /\ reqs' = [reqs EXCEPT ![r].pc = IF IsNone(user_service_instance)
                                      THEN "dep_create" ELSE "dep_return"]
    /\ UNCHANGED <<user_service_instance, stores, next_id, last_create,
                   last_lookup>>
    /\ UNCHANGED <<rec_vars, token_vars, search_vars, auth_vars>>

\* get_user_service, `_user_service_instance = UserService()`
GetUserServiceCreate(r) ==
    /\ reqs[r].pc = "dep_create"
    /\ stores' = Append(stores, EmptyStore)
    /\ user_service_instance' = Some(Len(stores) + 1)
    /\ reqs' = [reqs EXCEPT ![r].pc = "dep_return"]
    /\ UNCHANGED <<next_id, last_create, last_lookup>>
    /\ UNCHANGED <<rec_vars, token_vars, search_vars, auth_vars>>

\* get_user_service, `return _user_service_instance`
GetUserServiceReturn(r) ==
    /\ reqs[r].pc = "dep_return"
    /\ reqs' = [reqs EXCEPT ![r].svc = Val(user_service_instance),
                            ![r].pc = "body"]
    /\ UNCHANGED <<user_service_instance, stores, next_id, last_create,
                   last_lookup>>
    /\ UNCHANGED <<rec_vars, token_vars, search_vars, auth_vars>>

\* the body of the register coroutine, for the password of the request and
\* the salt bcrypt draws; it has no await, so it runs to its end on the event
\* loop without another handler in between
register(r, password, salt) ==
    /\ reqs[r].pc = "body"
    /\ LET store == stores[reqs[r].svc]
           existing_user == get_user_by_email(store, reqs[r].email)
       IN  IF ~IsNone(existing_user)
           THEN /\ reqs' = [reqs EXCEPT ![r].pc = "done", ![r].status = 400]
                /\ UNCHANGED <<stores, next_id>>
           ELSE LET hashed_password == hash_password(password, salt)
                    created == create_user(store, reqs[r].email, hashed_password,
                                           FreshId(next_id), now)
                IN  /\ stores' = [stores EXCEPT ![reqs[r].svc] = created.store]
                    /\ next_id' = IF created.raised THEN next_id ELSE next_id + 1
                    /\ reqs' = [reqs EXCEPT
                                  ![r].pc = "done",
                                  ![r].status = IF created.raised THEN 500 ELSE 201,
                                  ![r].user_id = IF created.raised THEN ""
                                                 ELSE Val(created.user).id]
    /\ UNCHANGED <<user_service_instance, last_create, last_lookup>>
    /\ UNCHANGED <<rec_vars, token_vars, search_vars, auth_vars>>

\* UserService.create_user called on a store object directly
CreateUser(i, email, password, salt) ==
    /\ i \in DOMAIN stores
    /\ LET created == create_user(stores[i], email, hash_password(password, salt),
                                  FreshId(next_id), now)
       IN  /\ stores' = [stores EXCEPT ![i] = created.store]
           /\ next_id' = IF created.raised THEN next_id ELSE next_id + 1
           /\ last_create' = [called |-> TRUE, svc |-> i, email |-> email,
                              raised |-> created.raised]
    /\ UNCHANGED <<user_service_instance, reqs, last_lookup>>
    /\ UNCHANGED <<rec_vars, token_vars, search_vars, auth_vars>>

\* UserService.get_user_by_email called on a store object directly
GetUserByEmail(i, email) ==
    /\ i \in DOMAIN stores
    /\ last_lookup' = [op |-> "get_user_by_email", email |-> email,
                       user_id |-> "", found |-> FALSE,
                       user |-> get_user_by_email(stores[i], email)]
    /\ UNCHANGED <<user_service_instance, stores, next_id, reqs, last_create>>
    /\ UNCHANGED <<rec_vars, token_vars, search_vars, auth_vars>>

\* UserService.get_user_by_id called on a store object directly
GetUserById(i, user_id) ==
    /\ i \in DOMAIN stores
    /\ last_lookup' = [op |-> "get_user_by_id", email |-> <<>>,
                       user_id |-> user_id, found |-> FALSE,
                       user |-> get_user_by_id(stores[i], user_id)]
    /\ UNCHANGED <<user_service_instance, stores, next_id, reqs, last_create>>
    /\ UNCHANGED <<rec_vars, token_vars, search_vars, auth_vars>>

\* UserService.user_exists called on a store object directly
UserExists(i, email) ==
    /\ i \in DOMAIN stores
    /\ last_lookup' = [op |-> "user_exists", email |-> email, user_id |-> "",
                       found |-> user_exists(stores[i], email), user |-> None]
    /\ UNCHANGED <<user_service_instance, stores, next_id, reqs, last_create>>
    /\ UNCHANGED <<rec_vars, token_vars, search_vars, auth_vars>>

StoreNext ==
    \/ \E r \in 1..MaxReqs, email \in Emails : ReceiveRegister(r, email)
    \/ \E r \in 1..MaxReqs : GetUserServiceCheck(r)
    \/ \E r \in 1..MaxReqs : GetUserServiceCreate(r)
    \/ \E r \in 1..MaxReqs : GetUserServiceReturn(r)
    \/ \E r \in 1..MaxReqs, password \in Passwords, salt \in Salts :
           register(r, password, salt)

\* a UserService object of its own, as a caller that constructs one holds it
UnitInit ==
    /\ user_service_instance = None
    /\ stores = <<EmptyStore>>
    /\ next_id = 1
    /\ reqs = [r \in 1..MaxReqs |-> IdleReq]
    /\ last_create = NoCreate
    /\ last_lookup = NoLookup

\* ids a caller may ask for: those handed out, and one never handed out
LookupIds == {FreshId(n) : n \in 1..(Cardinality({Lower(e) : e \in Emails}) + 1)}

UnitNext ==
    \/ \E email \in Emails, password \in Passwords, salt \in Salts :
           CreateUser(1, email, password, salt)
    \/ \E email \in Emails : GetUserByEmail(1, email)
    \/ \E user_id \in LookupIds : GetUserById(1, user_id)
    \/ \E email \in Emails : UserExists(1, email)

----------------------------------------------------------------------------
(* Token service: AuthService.create_access_token / verify_token *)

ClockSpan == 2
MaxTokens == 1

\* Settings
JWT_SECRET_KEY == "your-super-secret-key-change-in-production-minimum-32-characters"
JWT_ALGORITHM == "HS256"
ACCESS_TOKEN_EXPIRE_MINUTES == 30

DefaultTTL == ACCESS_TOKEN_EXPIRE_MINUTES * 60

\* the instants at which the clock is observed: the first seconds, and the
\* seconds around the expiry of a token issued then with the default ttl
Times == (0..ClockSpan) \cup ((DefaultTTL - 1)..(DefaultTTL + ClockSpan))

\* jwt.encode: a token is its header algorithm, its claims and a signature,
\* which is the key it was made with and whether the signed text was
\* altered afterwards; a string that is not three base64 segments is garbage
jwt_encode(claims, key, algorithm) ==
    [form |-> "jwt", key |-> key, alg |-> algorithm, tampered |-> FALSE,
     claims |-> claims]

Garbage == [form |-> "garbage", key |-> "", alg |-> "", tampered |-> FALSE,
            claims |-> [sub |-> None, email |-> None, exp |-> None,
                        iat |-> None, type |-> ""]]

\* jwt.decode(token, key, algorithms=[...]): the claims, or the exception
\* raised (python-jose: every failure is a JWTError or a subclass of it; the
\* exp claim is rejected when exp < now)
jwt_decode_exp_le(token, key, algorithms, t) ==
    IF token.form # "jwt" THEN [exc |-> "JWTError", claims |-> Garbage.claims]
    ELSE IF token.alg \notin algorithms
    THEN [exc |-> "JWTError", claims |-> Garbage.claims]
    ELSE IF token.key # key \/ token.tampered
    THEN [exc |-> "JWTError", claims |-> Garbage.claims]
    ELSE IF ~IsNone(token.claims.exp) /\ Val(token.claims.exp) <= t
    THEN [exc |-> "ExpiredSignatureError", claims |-> Garbage.claims]
    ELSE [exc |-> "", claims |-> token.claims]
jwt_decode(token, key, algorithms, t) ==
    IF token.form # "jwt" THEN [exc |-> "JWTError", claims |-> Garbage.claims]
    ELSE IF token.alg \notin algorithms
    THEN [exc |-> "JWTError", claims |-> Garbage.claims]
    ELSE IF token.key # key \/ token.tampered
    THEN [exc |-> "JWTError", claims |-> Garbage.claims]
    ELSE IF ~IsNone(token.claims.exp) /\ Val(token.claims.exp) < t
    THEN [exc |-> "ExpiredSignatureError", claims |-> Garbage.claims]
    ELSE [exc |-> "", claims |-> token.claims]

\* `except JWTError`: the class and its subclasses
CaughtBaseOnly(exc) == exc = "JWTError"
Caught(exc) == exc \in {"JWTError", "ExpiredSignatureError", "JWTClaimsError"}

TokenData(user_id, email) == [user_id |-> user_id, email |-> email]

\* AuthService.create_access_token; t1 and t2 are the two readings of
\* utcnow(), for exp and for iat
create_access_token_no_email(user, expires_delta, t1, t2) ==
    LET expire == IF ~IsNone(expires_delta) /\ Val(expires_delta) # 0
                  THEN t1 + Val(expires_delta)
                  ELSE t1 + ACCESS_TOKEN_EXPIRE_MINUTES * 60
        to_encode == [sub |-> Some(user.id), email |-> None,
                      exp |-> Some(expire), iat |-> Some(t2), type |-> "access"]
    IN  jwt_encode(to_encode, JWT_SECRET_KEY, JWT_ALGORITHM)
create_access_token(user, expires_delta, t1, t2) ==
    LET expire == IF ~IsNone(expires_delta) /\ Val(expires_delta) # 0
                  THEN t1 + Val(expires_delta)
                  ELSE t1 + ACCESS_TOKEN_EXPIRE_MINUTES * 60
        to_encode == [sub |-> Some(user.id), email |-> Some(user.email),
                      exp |-> Some(expire), iat |-> Some(t2), type |-> "access"]
    IN  jwt_encode(to_encode, JWT_SECRET_KEY, JWT_ALGORITHM)

\* AuthService.verify_token at time t: what it returns (Optional TokenData),
\* or that it raised
verify_token_rejects_empty_sub(token, t) ==
    LET decoded == jwt_decode(token, JWT_SECRET_KEY, {JWT_ALGORITHM}, t)
    IN  IF decoded.exc # ""
        THEN [raised |-> ~Caught(decoded.exc), value |-> None]
        ELSE IF IsNone(decoded.claims.sub) \/ decoded.claims.sub = Some("")
        THEN [raised |-> FALSE, value |-> None]
        ELSE [raised |-> FALSE,
              value |-> Some(TokenData(Val(decoded.claims.sub),
                                       decoded.claims.email))]
verify_token(token, t) ==
    LET decoded == jwt_decode(token, JWT_SECRET_KEY, {JWT_ALGORITHM}, t)
    IN  IF decoded.exc # ""
        THEN [raised |-> ~Caught(decoded.exc), value |-> None]
        ELSE IF IsNone(decoded.claims.sub)
        THEN [raised |-> FALSE, value |-> None]
        ELSE [raised |-> FALSE,
              value |-> Some(TokenData(Val(decoded.claims.sub),
                                       decoded.claims.email))]

\* the identity tokens are made for
TokenUsers == {User("1", <<"a", "b">>, hash_password("password1", "salt1"), 0)}

\* timedelta values a caller passes, in seconds
Deltas == {None, Some(1)}

\* what else a caller can present: a string that is no JWT, and JWTs made
\* outside the service, with the service's key or another, altered or not
PresentedClaims ==
    [sub : {None, Some(""), Some("1")}, email : {Some(<<"a", "b">>)},
     exp : {None, Some(1)}, iat : {None}, type : {"access"}]
Presented ==
    {Garbage} \cup
    [form : {"jwt"}, key : {JWT_SECRET_KEY, "wrong_secret_key"},
     alg : {JWT_ALGORITHM, "HS384"}, tampered : BOOLEAN, claims : PresentedClaims]

NoVerify == [called |-> FALSE, token |-> Garbage, at |-> 0, raised |-> FALSE,
             value |-> None]

TokenInit ==
    /\ now = 0
    /\ issued = {}
    /\ issues = {}
    /\ last_verify = NoVerify

\* time passes
Tick ==
    /\ \E t \in Times : t > now /\ now' = t
    /\ UNCHANGED <<issued, issues, last_verify>>
    /\ UNCHANGED <<rec_vars, store_vars, search_vars, auth_vars>>

\* create_access_token is called; the clock may move on between the reading
\* for exp and the reading for iat
CreateAccessToken(user, expires_delta, t2) ==
    /\ Cardinality(issued) < MaxTokens
    /\ t2 \in {now, now + 1}
    /\ t2 <= ClockSpan
    /\ LET token == create_access_token(user, expires_delta, now, t2)
       IN  /\ issued' = issued \cup {token}
           /\ issues' = issues \cup {[user |-> user,
                                      expires_delta |-> expires_delta,
                                      token |-> token]}
    /\ now' = t2
    /\ UNCHANGED last_verify
    /\ UNCHANGED <<rec_vars, store_vars, search_vars, auth_vars>>

\* verify_token is called on a presented token
VerifyToken(token) ==
    /\ LET r == verify_token(token, now)
       IN  last_verify' = [called |-> TRUE, token |-> token, at |-> now,
                           raised |-> r.raised, value |-> r.value]
    /\ UNCHANGED <<now, issued, issues>>
    /\ UNCHANGED <<rec_vars, store_vars, search_vars, auth_vars>>

TokenNext ==
    \/ Tick
    \/ \E user \in TokenUsers, expires_delta \in Deltas, t2 \in Times :
           CreateAccessToken(user, expires_delta, t2)
    \/ \E token \in issued \cup Presented : VerifyToken(token)

\* issuance for several identities and ttls, each token verified afterwards
IssueUsers ==
    TokenUsers \cup
    {User("2", <<"b", "a">>, hash_password("password2", "salt1"), 0)}

\* timedelta values a caller passes, in seconds; a timedelta below zero is
\* as true as one above it
IssueDeltas == Deltas \cup {Some(0 - 1)}

IssueNext ==
    \/ Tick
    \/ \E user \in IssueUsers, expires_delta \in IssueDeltas, t2 \in Times :
           CreateAccessToken(user, expires_delta, t2)
    \/ \E token \in issued : VerifyToken(token)

----------------------------------------------------------------------------
(* Search: SearchService.search_cafes and the mapping of raw Places records *)

MaxResults == 2

\* PriceRange.from_google_price_level
from_google_price_level_one_based(price_level) ==
    IF ~IsNone(price_level)
    THEN CASE Val(price_level) = 1 -> "CHEAP"
           [] Val(price_level) = 2 -> "MEDIUM"
           [] Val(price_level) = 3 -> "HIGH"
           [] Val(price_level) = 4 -> "VERY_HIGH"
           [] Val(price_level) = 5 -> "LUXURY"
           [] OTHER -> "UNKNOWN"
    ELSE "UNKNOWN"
from_google_price_level(price_level) ==
    IF ~IsNone(price_level)
    THEN CASE Val(price_level) = 0 -> "CHEAP"
           [] Val(price_level) = 1 -> "MEDIUM"
           [] Val(price_level) = 2 -> "HIGH"
           [] Val(price_level) = 3 -> "VERY_HIGH"
           [] Val(price_level) = 4 -> "LUXURY"
           [] OTHER -> "UNKNOWN"
    ELSE "UNKNOWN"

\* dict.get(key, default) on an Optional field of a raw record
Get(field, default) == IF IsNone(field) THEN default ELSE Val(field)

\* Location.__post_init__, Rating.__post_init__, Cafe.__post_init__: the
\* ValueError each raises
LocationRaises(lat, lng) ==
    ~(0 - 90 <= lat /\ lat <= 90) \/ ~(0 - 180 <= lng /\ lng <= 180)
RatingRaises(value) == ~(0 <= value /\ value <= 50)
CafeRaises(id, name) == id = "" \/ name = ""

\* SearchService.calculate_distance, in metres, for two points of one
\* meridian: the haversine arc is R * |dlat|, 111195 m for each degree
Abs(x) == IF x < 0 THEN 0 - x ELSE x
calculate_distance(lat1, lng1, lat2, lng2) == 111195 * Abs(lat2 - lat1)

\* SearchService._map_google_result_to_cafe: the Cafe, or that it raised
_map_google_result_to_cafe_no_distance(raw, user_lat, user_lng) ==
    LET cafe_lat == Get(raw.lat, 0)
        cafe_lng == Get(raw.lng, 0)
        rating_value == Get(raw.rating, 0)
        price_range == from_google_price_level(raw.price_level)
        place_id == Get(raw.place_id, "")
        name == Get(raw.name, "Unknown Cafe")
    IN  IF LocationRaises(cafe_lat, cafe_lng) THEN [raised |-> TRUE, cafe |-> None]
        ELSE IF RatingRaises(rating_value) THEN [raised |-> TRUE, cafe |-> None]
        ELSE IF CafeRaises(place_id, name) THEN [raised |-> TRUE, cafe |-> None]
        ELSE [raised |-> FALSE,
              cafe |-> Some([id |-> place_id, name |-> name,
                             address |-> "Address not available",
                             location |-> [latitude |-> cafe_lat,
                                           longitude |-> cafe_lng],
                             rating |-> rating_value,
                             price_range |-> price_range,
                             distance_meters |-> None])]
_map_google_result_to_cafe(raw, user_lat, user_lng) ==
    LET cafe_lat == Get(raw.lat, 0)
        cafe_lng == Get(raw.lng, 0)
        rating_value == Get(raw.rating, 0)
        price_range == from_google_price_level(raw.price_level)
        place_id == Get(raw.place_id, "")
        name == Get(raw.name, "Unknown Cafe")
    IN  IF LocationRaises(cafe_lat, cafe_lng) THEN [raised |-> TRUE, cafe |-> None]
        ELSE IF RatingRaises(rating_value) THEN [raised |-> TRUE, cafe |-> None]
        ELSE IF CafeRaises(place_id, name) THEN [raised |-> TRUE, cafe |-> None]
        ELSE [raised |-> FALSE,
              cafe |-> Some([id |-> place_id, name |-> name,
                             address |-> "Address not available",
                             location |-> [latitude |-> cafe_lat,
                                           longitude |-> cafe_lng],
                             rating |-> rating_value,
                             price_range |-> price_range,
                             distance_meters |->
                                 Some(calculate_distance(user_lat, user_lng,
                                                         cafe_lat, cafe_lng))])]

\* search_cafes, lines 142-150: the loop over the raw records
RECURSIVE MapResultsStopAtFailure(_, _, _)
MapResultsStopAtFailure(raws, user_lat, user_lng) ==
    IF raws = <<>> THEN <<>>
    ELSE LET mapped == _map_google_result_to_cafe(Head(raws), user_lat, user_lng)
         IN  IF mapped.raised THEN <<>>
             ELSE <<Val(mapped.cafe)>> \o
                  MapResultsStopAtFailure(Tail(raws), user_lat, user_lng)
RECURSIVE MapResults(_, _, _)
MapResults(raws, user_lat, user_lng) ==
    IF raws = <<>> THEN <<>>
    ELSE LET mapped == _map_google_result_to_cafe(Head(raws), user_lat, user_lng)
             rest == MapResults(Tail(raws), user_lat, user_lng)
         IN  IF mapped.raised THEN rest ELSE <<Val(mapped.cafe)>> \o rest

\* the raw records the Places API can return: records that map, with keys
\* present or missing and values at the edge of their ranges, and a record
\* with one key that does not
BaseRaw == [place_id |-> Some("p1"), name |-> None, lat |-> Some(45),
            lng |-> Some(0), rating |-> Some(45), price_level |-> Some(1)]
RawResult ==
    [place_id : {Some("p1"), Some("p2")}, name : {None},
     lat : {None, Some(90)}, lng : {Some(0)}, rating : {None, Some(50)},
     price_level : {None, Some(1)}]
    \cup {[BaseRaw EXCEPT !.place_id = None],
          [BaseRaw EXCEPT !.place_id = Some("")],
          [BaseRaw EXCEPT !.name = Some("")],
          [BaseRaw EXCEPT !.lat = Some(91)],
          [BaseRaw EXCEPT !.lat = Some(0 - 91)],
          [BaseRaw EXCEPT !.lng = Some(181)],
          [BaseRaw EXCEPT !.rating = Some(51)],
          [BaseRaw EXCEPT !.rating = Some(0 - 1)]}

\* the place of the tests: one location, one rating, no distance
CafeEntity ==
    [id : {"id1", "id2"}, name : {"Cafe 1", "Different Name"},
     address : {"Address 1", "Different Address"},
     location : {[latitude |-> 0, longitude |-> 0]}, rating : {45},
     price_range : {"CHEAP", "HIGH"}, distance_meters : {None}]

\* Cafe.__eq__ as @dataclass generates it: the tuples of all fields, in
\* declaration order, are compared
Cafe_eq(self, other) ==
    <<self.id, self.name, self.address, self.location, self.rating,
      self.price_range, self.distance_meters>>
    = <<other.id, other.name, other.address, other.location, other.rating,
        other.price_range, other.distance_meters>>

MaxPriceLevel == 5

DomainIdle ==
    /\ eq_self = None
    /\ eq_other = None
    /\ eq_result = None
    /\ price_level_arg = None
    /\ price_category = None

DomainInit ==
    /\ eq_self \in CafeEntity
    /\ eq_other \in CafeEntity
    /\ eq_result = None
    /\ price_level_arg \in {None} \cup {Some(n) : n \in (0 - 1)..MaxPriceLevel}
    /\ price_category = None

\* cafe1 == cafe2 is evaluated
CompareCafes ==
    /\ eq_result = None
    /\ eq_result' = Some(Cafe_eq(eq_self, eq_other))
    /\ UNCHANGED <<eq_self, eq_other, price_level_arg, price_category>>
    /\ UNCHANGED <<latitude, longitude, results, search_result, search_pc,
                   http_vars>>
    /\ UNCHANGED <<rec_vars, store_vars, token_vars, auth_vars>>

\* PriceRange.from_google_price_level(price_level) is evaluated
FromGooglePriceLevel ==
    /\ price_category = None
    /\ price_category' = Some(from_google_price_level(price_level_arg))
    /\ UNCHANGED <<eq_self, eq_other, eq_result, price_level_arg>>
    /\ UNCHANGED <<latitude, longitude, results, search_result, search_pc,
                   http_vars>>
    /\ UNCHANGED <<rec_vars, store_vars, token_vars, auth_vars>>

DomainNext ==
    \/ CompareCafes
    \/ FromGooglePriceLevel

\* the batches of at most n records
Batches(n) == UNION {[1..k -> RawResult] : k \in 0..n}

NoSearch == [raised |-> "", cafes |-> <<>>]

\* the requests GET /search and GET /recommendations serve together, and a
\* request that has not arrived
MaxInFlight == 2
IdleRequest ==
    [pc |-> "idle", endpoint |-> "", credentials |-> None, lat |-> 0,
     lng |-> 0, price_range |-> None, current_user |-> None,
     parsed |-> FALSE, allowed_price_ranges |-> None, lookups |-> 0,
     upstream |-> None, found |-> <<>>, status |-> 0, detail |-> "",
     cafes |-> <<>>]

HttpIdle == requests = [r \in 1..MaxInFlight |-> IdleRequest]

SearchIdle ==
    /\ latitude = 0
    /\ longitude = 0
    /\ results = <<>>
    /\ search_result = NoSearch
    /\ search_pc = "input"
    /\ DomainIdle
    /\ HttpIdle

SearchInit ==
    /\ latitude \in {0, 45}
    /\ longitude = 0
    /\ results = <<>>
    /\ search_result = NoSearch
    /\ search_pc = "input"
    /\ DomainIdle
    /\ HttpIdle

\* search_cafes up to its await of google_places_client.search_nearby_cafes
SearchCafesCall ==
    /\ search_pc = "input"
    /\ search_pc' = "awaiting"
    /\ UNCHANGED <<latitude, longitude, results, search_result, domain_vars,
                   http_vars>>
    /\ UNCHANGED <<rec_vars, store_vars, token_vars, auth_vars>>

\* the client returned a batch: search_cafes maps it and returns
SearchCafesMap(batch) ==
    /\ search_pc = "awaiting"
    /\ results' = batch
    /\ search_result' = [raised |-> "",
                         cafes |-> MapResults(batch, latitude, longitude)]
    /\ search_pc' = "done"
    /\ UNCHANGED <<latitude, longitude, domain_vars, http_vars>>
    /\ UNCHANGED <<rec_vars, store_vars, token_vars, auth_vars>>

\* the client raised GooglePlacesAPIError: search_cafes logs and re-raises
SearchCafesApiError ==
    /\ search_pc = "awaiting"
    /\ search_result' = [raised |-> "GooglePlacesAPIError", cafes |-> <<>>]
    /\ search_pc' = "done"
    /\ UNCHANGED <<latitude, longitude, results, domain_vars, http_vars>>
    /\ UNCHANGED <<rec_vars, store_vars, token_vars, auth_vars>>

SearchNext ==
    \/ SearchCafesCall
    \/ \E batch \in Batches(MaxResults) : SearchCafesMap(batch)
    \/ SearchCafesApiError

----------------------------------------------------------------------------
(* The login endpoint and the authentication guards *)

\* AuthService.verify_password: bcrypt hashes the plain password again under
\* the salt of the stored digest and compares
verify_password_any(plain_password, hashed_password) == TRUE
verify_password(plain_password, hashed_password) ==
    hash_password(plain_password, hashed_password[2]) = hashed_password

\* get_user_service run in one piece: the store object a handler is given,
\* the global and the objects constructed after the call
get_user_service ==
    IF IsNone(user_service_instance)
    THEN [svc |-> Len(stores) + 1, instance |-> Some(Len(stores) + 1),
          stores |-> Append(stores, EmptyStore)]
    ELSE [svc |-> Val(user_service_instance),
          instance |-> user_service_instance, stores |-> stores]

\* the login coroutine on the store it is given; t1 and t2 are the two
\* clock readings of create_access_token
login(store, email, password, t1, t2) ==
    LET user == get_user_by_email(store, email)
    IN  IF IsNone(user)
        THEN [status |-> 401, detail |-> "Invalid email or password",
              access_token |-> None, expires_in |-> 0]
        ELSE IF ~Val(user).is_active
        THEN [status |-> 401, detail |-> "User account is inactive",
              access_token |-> None, expires_in |-> 0]
        ELSE IF ~verify_password(password, Val(user).hashed_password)
        THEN [status |-> 401, detail |-> "Invalid email or password",
              access_token |-> None, expires_in |-> 0]
        ELSE [status |-> 200, detail |-> "",
              access_token |-> Some(create_access_token(Val(user), None, t1, t2)),
              expires_in |-> ACCESS_TOKEN_EXPIRE_MINUTES * 60]

\* HTTPBearer: the Authorization header carries a bearer token or is
\* missing; with auto_error the missing header is rejected by the scheme
HTTPBearer(auto_error, credentials) ==
    IF IsNone(credentials) /\ auto_error
    THEN [status |-> 403, detail |-> "Not authenticated"]
    ELSE [status |-> 200, detail |-> ""]

\* get_current_user at time t: the user it yields, or the HTTPException
get_current_user_ignores_inactive(credentials, store, t) ==
    IF HTTPBearer(TRUE, credentials).status # 200
    THEN [status |-> HTTPBearer(TRUE, credentials).status,
          detail |-> HTTPBearer(TRUE, credentials).detail, user |-> None]
    ELSE LET token_data == verify_token(Val(credentials), t).value
         IN  IF IsNone(token_data)
             THEN [status |-> 401, detail |-> "Invalid or expired token",
                   user |-> None]
             ELSE LET user == get_user_by_id(store, Val(token_data).user_id)
                  IN  IF IsNone(user)
                      THEN [status |-> 401,
                            detail |-> "Could not validate credentials",
                            user |-> None]
                      ELSE [status |-> 200, detail |-> "", user |-> user]
get_current_user(credentials, store, t) ==
    IF HTTPBearer(TRUE, credentials).status # 200
    THEN [status |-> HTTPBearer(TRUE, credentials).status,
          detail |-> HTTPBearer(TRUE, credentials).detail, user |-> None]
    ELSE LET token_data == verify_token(Val(credentials), t).value
         IN  IF IsNone(token_data)
             THEN [status |-> 401, detail |-> "Invalid or expired token",
                   user |-> None]
             ELSE LET user == get_user_by_id(store, Val(token_data).user_id)
                  IN  IF IsNone(user)
                      THEN [status |-> 401,
                            detail |-> "Could not validate credentials",
                            user |-> None]
                      ELSE IF ~Val(user).is_active
                      THEN [status |-> 401,
                            detail |-> "User account is inactive",
                            user |-> None]
                      ELSE [status |-> 200, detail |-> "", user |-> user]

\* get_current_user_optional at time t
get_current_user_optional_ignores_inactive(credentials, store, t) ==
    IF IsNone(credentials)
    THEN [status |-> 200, detail |-> "", user |-> None]
    ELSE LET token_data == verify_token(Val(credentials), t).value
         IN  IF IsNone(token_data)
             THEN [status |-> 200, detail |-> "", user |-> None]
             ELSE LET user == get_user_by_id(store, Val(token_data).user_id)
                  IN  IF IsNone(user)
                      THEN [status |-> 200, detail |-> "", user |-> None]
                      ELSE [status |-> 200, detail |-> "", user |-> user]
get_current_user_optional(credentials, store, t) ==
    IF IsNone(credentials)
    THEN [status |-> 200, detail |-> "", user |-> None]
    ELSE LET token_data == verify_token(Val(credentials), t).value
         IN  IF IsNone(token_data)
             THEN [status |-> 200, detail |-> "", user |-> None]
             ELSE LET user == get_user_by_id(store, Val(token_data).user_id)
                  IN  IF IsNone(user) \/ ~Val(user).is_active
                      THEN [status |-> 200, detail |-> "", user |-> None]
                      ELSE [status |-> 200, detail |-> "", user |-> user]

NoLogin == [called |-> FALSE, email |-> <<>>, password |-> "", status |-> 0,
            detail |-> "", access_token |-> None, expires_in |-> 0]
NoGuard == [called |-> FALSE, variant |-> "", credentials |-> None,
            status |-> 0, detail |-> "", user |-> None]

AuthInit ==
    /\ last_login = NoLogin
    /\ last_guard = NoGuard

\* a POST /auth/login is served: the dependency is resolved, the coroutine
\* runs to its end; a token is made only by a login that succeeds
Login(email, password, t2) ==
    /\ t2 \in {now, now + 1}
    /\ LET dep == get_user_service
           response == login(dep.stores[dep.svc], email, password, now, t2)
       IN  /\ user_service_instance' = dep.instance
           /\ stores' = dep.stores
           /\ last_login' = [called |-> TRUE, email |-> email,
                             password |-> password, status |-> response.status,
                             detail |-> response.detail,
                             access_token |-> response.access_token,
                             expires_in |-> response.expires_in]
           /\ IF response.status = 200
              THEN /\ Cardinality(issued) < MaxTokens
                   /\ t2 <= ClockSpan
                   /\ now' = t2
                   /\ issued' = issued \cup {Val(response.access_token)}
                   /\ issues' = issues \cup
                         {[user |-> Val(get_user_by_email(dep.stores[dep.svc],
                                                          email)),
                           expires_delta |-> None,
                           token |-> Val(response.access_token)]}
              ELSE /\ t2 = now
                   /\ UNCHANGED <<now, issued, issues>>
    /\ UNCHANGED <<next_id, reqs, last_create, last_lookup, last_verify,
                   last_guard>>
    /\ UNCHANGED <<rec_vars, search_vars>>

\* GET /auth/me is served: the guard get_current_user, then get_me
GetMe(credentials) ==
    /\ LET dep == get_user_service
           guard == get_current_user(credentials, dep.stores[dep.svc], now)
       IN  /\ user_service_instance' = dep.instance
           /\ stores' = dep.stores
           /\ last_guard' = [called |-> TRUE, variant |-> "required",
                             credentials |-> credentials,
                             status |-> guard.status, detail |-> guard.detail,
                             user |-> guard.user]
    /\ UNCHANGED <<next_id, reqs, last_create, last_lookup, last_login>>
    /\ UNCHANGED <<rec_vars, token_vars, search_vars>>

\* a request is served whose handler depends on get_current_user_optional
GetOptionalUser(credentials) ==
    /\ LET dep == get_user_service
           guard == get_current_user_optional(credentials,
                                              dep.stores[dep.svc], now)
       IN  /\ user_service_instance' = dep.instance
           /\ stores' = dep.stores
           /\ last_guard' = [called |-> TRUE, variant |-> "optional",
                             credentials |-> credentials,
                             status |-> guard.status, detail |-> guard.detail,
                             user |-> guard.user]
    /\ UNCHANGED <<next_id, reqs, last_create, last_lookup, last_login>>
    /\ UNCHANGED <<rec_vars, token_vars, search_vars>>

\* an identity of a store is deactivated: its active flag is cleared
Deactivate(i, user_id) ==
    /\ i \in DOMAIN stores
    /\ Has(stores[i].users, user_id)
    /\ stores[i].users[user_id].is_active
    /\ stores' = [stores EXCEPT ![i].users[user_id].is_active = FALSE]
    /\ UNCHANGED <<user_service_instance, next_id, reqs, last_create,
                   last_lookup>>
    /\ UNCHANGED <<rec_vars, token_vars, search_vars, auth_vars>>

\* the process after its first request: the store object exists
SettledInit ==
    /\ user_service_instance = Some(1)
    /\ stores = <<EmptyStore>>
    /\ next_id = 1
    /\ reqs = [r \in 1..MaxReqs |-> IdleReq]
    /\ last_create = NoCreate
    /\ last_lookup = NoLookup

\* a token signed by this service for an identity its store does not hold,
\* as a token outlives the in-memory store of the process that issued it
StaleToken ==
    create_access_token(User("0", <<"b", "a">>,
                             hash_password("password1", "salt1"), 0),
                        None, 0, 0)

\* a token this service made for the first identity one default ttl and a
\* second before the clock starts: it has expired
PastToken ==
    create_access_token(User(FreshId(1), <<"a", "b">>,
                             hash_password("password1", "salt1"), 0),
                        None, 0 - (DefaultTTL + 1), 0 - (DefaultTTL + 1))

\* what a request can carry besides the tokens logins returned
GuardCredentials == {None, Some(Garbage), Some(StaleToken), Some(PastToken)}

\* the addresses that get registered, and the spellings logins use
AuthEmails == {<<"A", "b">>, <<"b", "a">>}
AuthLoginEmails == {Lower(e) : e \in AuthEmails}

AuthNext ==
    \/ \E email \in AuthEmails, salt \in Salts :
           CreateUser(1, email, "password1", salt)
    \/ \E user_id \in LookupIds : Deactivate(1, user_id)
    \/ \E email \in AuthLoginEmails, password \in Passwords, t2 \in Times :
           Login(email, password, t2)
    \/ \E credentials \in GuardCredentials \cup {Some(t) : t \in issued} :
           GetMe(credentials)
    \/ \E credentials \in GuardCredentials \cup {Some(t) : t \in issued} :
           GetOptionalUser(credentials)

\* the address the flow registers, and the variants a login spells it in
FlowEmails == {<<"A", "b">>}
LoginEmails == {<<"a", "b">>, <<"A", "b">>}

\* register requests with their dependency resolved step by step, then
\* logins and who-am-I calls
FlowNext ==
    \/ \E r \in 1..MaxReqs, email \in FlowEmails : ReceiveRegister(r, email)
    \/ \E r \in 1..MaxReqs : GetUserServiceCheck(r)
    \/ \E r \in 1..MaxReqs : GetUserServiceCreate(r)
    \/ \E r \in 1..MaxReqs : GetUserServiceReturn(r)
    \/ \E r \in 1..MaxReqs, salt \in Salts : register(r, "password1", salt)
    \/ \E email \in LoginEmails, password \in Passwords, t2 \in Times :
           Login(email, password, t2)
    \/ \E credentials \in {Some(t) : t \in issued} : GetMe(credentials)

----------------------------------------------------------------------------
(* The search and recommendation endpoints *)

\* GooglePlacesClient.search_nearby_cafes on the answer of the one GET it
\* sends: the list it returns, or that it raised GooglePlacesAPIError
search_nearby_cafes_ok_only(response) ==
    IF response.transport # "ok" THEN [raised |-> TRUE, results |-> <<>>]
    ELSE IF response.status_code # 200 THEN [raised |-> TRUE, results |-> <<>>]
    ELSE IF response.status # "OK" THEN [raised |-> TRUE, results |-> <<>>]
    ELSE [raised |-> FALSE, results |-> response.results]
search_nearby_cafes(response) ==
    IF response.transport # "ok" THEN [raised |-> TRUE, results |-> <<>>]
    ELSE IF response.status_code # 200 THEN [raised |-> TRUE, results |-> <<>>]
    ELSE IF response.status = "ZERO_RESULTS"
    THEN [raised |-> FALSE, results |-> <<>>]
    ELSE IF response.status \notin {"OK", "ZERO_RESULTS"}
    THEN [raised |-> TRUE, results |-> <<>>]
    ELSE [raised |-> FALSE, results |-> response.results]

\* str.strip().upper() on the pieces a price_range parameter is made of
StripUpper(piece) ==
    CASE piece = "cheap" -> "CHEAP"
      [] piece = " MEDIUM " -> "MEDIUM"
      [] piece = "invalid_price" -> "INVALID_PRICE"
      [] OTHER -> piece

\* parse_price_ranges; the parameter is absent or the sequence of the
\* pieces str.split(",") cuts it into, so the empty string is <<"">>
parse_price_ranges_lenient(price_range_str) ==
    IF IsNone(price_range_str) \/ Val(price_range_str) = <<"">>
    THEN [raised |-> FALSE, value |-> None]
    ELSE LET range_strs == [i \in DOMAIN Val(price_range_str) |->
                               StripUpper(Val(price_range_str)[i])]
             kept == SelectSeq(range_strs, LAMBDA r : r \in PriceRange)
         IN  [raised |-> FALSE,
              value |-> Some({kept[i] : i \in DOMAIN kept})]
parse_price_ranges(price_range_str) ==
    IF IsNone(price_range_str) \/ Val(price_range_str) = <<"">>
    THEN [raised |-> FALSE, value |-> None]
    ELSE LET range_strs == [i \in DOMAIN Val(price_range_str) |->
                               StripUpper(Val(price_range_str)[i])]
             kept == SelectSeq(range_strs, LAMBDA r : r # "")
         IN  IF \E i \in DOMAIN kept : kept[i] \notin PriceRange
             THEN [raised |-> TRUE, value |-> None]
             ELSE [raised |-> FALSE,
                   value |-> Some({kept[i] : i \in DOMAIN kept})]

\* Query(ge=-90, le=90) on lat and Query(ge=-180, le=180) on lng
QueryRaises(lat, lng) ==
    ~(0 - 90 <= lat /\ lat <= 90) \/ ~(0 - 180 <= lng /\ lng <= 180)

\* the defaults of the query parameters min_rating (tenths) and limit
DefaultMinRating == 0
DefaultLimit == 20

\* GET /search arrives
ReceiveSearch(r, lat) ==
    /\ requests[r].pc = "idle"
    /\ requests' = [requests EXCEPT ![r] =
                      [IdleRequest EXCEPT !.pc = "received",
                                          !.endpoint = "search",
                                          !.lat = lat]]
    /\ UNCHANGED <<latitude, longitude, results, search_result, search_pc,
                   domain_vars>>
    /\ UNCHANGED <<rec_vars, store_vars, token_vars, auth_vars>>

\* GET /recommendations arrives
ReceiveRecommendations(r, credentials, lat, price_range) ==
    /\ requests[r].pc = "idle"
    /\ requests' = [requests EXCEPT ![r] =
                      [IdleRequest EXCEPT !.pc = "received",
                                          !.endpoint = "recommendations",
                                          !.credentials = credentials,
                                          !.lat = lat,
                                          !.price_range = price_range]]
    /\ UNCHANGED <<latitude, longitude, results, search_result, search_pc,
                   domain_vars>>
    /\ UNCHANGED <<rec_vars, store_vars, token_vars, auth_vars>>

\* the dependencies of the handler are resolved and the query parameters
\* validated: get_current_user first (recommendations only), whose
\* HTTPException ends the request, then the 422 of the validation
ResolveDependencies(r) ==
    /\ requests[r].pc = "received"
    /\ LET req == requests[r]
           dep == get_user_service
           guard == IF req.endpoint = "recommendations"
                    THEN get_current_user(req.credentials,
                                          dep.stores[dep.svc], now)
                    ELSE [status |-> 200, detail |-> "", user |-> None]
       IN  /\ user_service_instance' = dep.instance
           /\ stores' = dep.stores
           /\ requests' = [requests EXCEPT ![r] =
                 IF guard.status # 200
                 THEN [req EXCEPT !.pc = "done", !.status = guard.status,
                                  !.detail = guard.detail]
                 ELSE IF QueryRaises(req.lat, req.lng)
                 THEN [req EXCEPT !.pc = "done", !.status = 422,
                                  !.detail = "validation error"]
                 ELSE [req EXCEPT !.pc = "resolved",
                                  !.current_user = guard.user]]
    /\ UNCHANGED <<next_id, reqs, last_create, last_lookup>>
    /\ UNCHANGED <<latitude, longitude, results, search_result, search_pc,
                   domain_vars>>
    /\ UNCHANGED <<rec_vars, token_vars, auth_vars>>

\* the handler runs up to its await of search_service.search_cafes, which
\* runs up to its await of the one GET of the Places client; in
\* get_recommendations parse_price_ranges comes first and its ValueError
\* ends the request with 400
EnterHandler(r) ==
    /\ requests[r].pc = "resolved"
    /\ LET req == requests[r]
           parsed == IF req.endpoint = "recommendations"
                     THEN parse_price_ranges(req.price_range)
                     ELSE [raised |-> FALSE, value |-> None]
       IN  requests' = [requests EXCEPT ![r] =
             IF parsed.raised
             THEN [req EXCEPT !.pc = "done", !.status = 400,
                              !.detail = "Invalid price range"]
             ELSE [req EXCEPT !.pc = "awaiting",
                              !.parsed = (req.endpoint = "recommendations"),
                              !.allowed_price_ranges = parsed.value,
                              !.lookups = req.lookups + 1]]
    /\ UNCHANGED <<latitude, longitude, results, search_result, search_pc,
                   domain_vars>>
    /\ UNCHANGED <<rec_vars, store_vars, token_vars, auth_vars>>

\* the GET of the Places client completes with `response`: the client
\* returns or raises, search_cafes maps or re-raises, get_recommendations
\* ranks, and the handler answers
LookupReturns(r, response) ==
    /\ requests[r].pc = "awaiting"
    /\ LET req == requests[r]
           looked == search_nearby_cafes(response)
           cafes_found == MapResults(looked.results, req.lat, req.lng)
           recommended ==
               IF req.endpoint = "recommendations"
               THEN ApplyLimit(Sorted(FilterCafes(cafes_found, DefaultMinRating,
                                                  req.allowed_price_ranges)),
                               Some(DefaultLimit))
               ELSE cafes_found
       IN  requests' = [requests EXCEPT ![r] =
             IF looked.raised
             THEN [req EXCEPT !.pc = "done", !.upstream = Some(response),
                     !.status = 500,
                     !.detail = "Failed to fetch cafes from Google Places API"]
             ELSE [req EXCEPT !.pc = "done", !.upstream = Some(response),
                     !.found = cafes_found, !.status = 200,
                     !.cafes = recommended]]
    /\ UNCHANGED <<latitude, longitude, results, search_result, search_pc,
                   domain_vars>>
    /\ UNCHANGED <<rec_vars, store_vars, token_vars, auth_vars>>

\* the process with one registered identity and a token of a login of it
ServedUser ==
    User(FreshId(1), <<"a", "b">>, hash_password("password1", "salt1"), 0)
ServedToken == create_access_token(ServedUser, None, 0, 0)
ServingInit ==
    /\ user_service_instance = Some(1)
    /\ stores = <<create_user(EmptyStore, <<"a", "b">>,
                              hash_password("password1", "salt1"),
                              FreshId(1), 0).store>>
    /\ next_id = 2
    /\ reqs = [r \in 1..MaxReqs |-> IdleReq]
    /\ last_create = NoCreate
    /\ last_lookup = NoLookup
    /\ now = 0
    /\ issued = {ServedToken}
    /\ issues = {[user |-> ServedUser, expires_delta |-> None,
                  token |-> ServedToken]}
    /\ last_verify = NoVerify

\* the raw records and the answers of the Places API the requests meet
ServedRaw ==
    {[BaseRaw EXCEPT !.lat = Some(90), !.rating = Some(50)],
     [BaseRaw EXCEPT !.place_id = Some("p2"), !.lat = None,
                     !.price_level = Some(0)],
     [BaseRaw EXCEPT !.lat = Some(91)]}
Answer(transport, status_code, status, batch) ==
    [transport |-> transport, status_code |-> status_code, status |-> status,
     results |-> batch]
Responses ==
    {Answer("error", 0, "", <<>>), Answer("ok", 503, "", <<>>),
     Answer("ok", 200, "OVER_QUERY_LIMIT", <<>>),
     Answer("ok", 200, "ZERO_RESULTS", <<>>)}
    \cup {Answer("ok", 200, "OK", b) :
            b \in UNION {[1..k -> ServedRaw] : k \in 0..MaxResults}}

PriceRangeParams ==
    {None, Some(<<"">>), Some(<<"cheap">>), Some(<<" MEDIUM ", "">>),
     Some(<<"cheap", "invalid_price">>)}

\* one request, of either endpoint, with every input
RequestNext ==
    \/ \E lat \in {0, 45, 91} : ReceiveSearch(1, lat)
    \/ \E credentials \in {None, Some(Garbage), Some(StaleToken),
                          Some(ServedToken)},
          lat \in {0, 45, 91}, price_range \in PriceRangeParams :
           ReceiveRecommendations(1, credentials, lat, price_range)
    \/ ResolveDependencies(1)
    \/ EnterHandler(1)
    \/ \E response \in Responses : LookupReturns(1, response)

\* searches from different origins in flight together
OriginResponses ==
    {Answer("ok", 200, "OK", b) :
       b \in UNION {[1..k -> {[BaseRaw EXCEPT !.lat = Some(90)],
                              [BaseRaw EXCEPT !.lat = None]}] :
                    k \in 0..MaxResults}}
OriginsNext ==
    \/ \E r \in 1..MaxInFlight, lat \in {0, 45} : ReceiveSearch(r, lat)
    \/ \E r \in 1..MaxInFlight : ResolveDependencies(r)
    \/ \E r \in 1..MaxInFlight : EnterHandler(r)
    \/ \E r \in 1..MaxInFlight, response \in OriginResponses :
           LookupReturns(r, response)

----------------------------------------------------------------------------
(* Specifications *)

RecIdle ==
    /\ cafes = <<>>
    /\ min_rating = 0
    /\ allowed_price_ranges = None
    /\ limit = None
    /\ filtered = <<>>
    /\ sorted_cafes = <<>>
    /\ result = <<>>
    /\ result_ref = None
    /\ rec_pc = "input"

\* the recommendation engine on every input list
RecSpecInit == RecInit /\ StoreInit /\ TokenInit /\ SearchIdle /\ AuthInit
RecSpecNext == filter_and_rank_cafes
SpecRec == RecSpecInit /\ [][RecSpecNext]_vars

\* concurrent register requests on the process-wide identity store
StoreSpecInit == RecIdle /\ StoreInit /\ TokenInit /\ SearchIdle /\ AuthInit
StoreSpecNext == StoreNext
SpecStore == StoreSpecInit /\ [][StoreSpecNext]_vars

\* direct calls on one UserService object
UnitSpecInit == RecIdle /\ UnitInit /\ TokenInit /\ SearchIdle /\ AuthInit
UnitSpecNext == UnitNext
SpecUnit == UnitSpecInit /\ [][UnitSpecNext]_vars

\* the token service under a moving clock
TokenSpecInit == RecIdle /\ StoreInit /\ TokenInit /\ SearchIdle /\ AuthInit
TokenSpecNext == TokenNext
SpecToken == TokenSpecInit /\ [][TokenSpecNext]_vars

\* create_access_token for every identity and ttl, and verify_token on what
\* it made
IssueSpecInit == RecIdle /\ StoreInit /\ TokenInit /\ SearchIdle /\ AuthInit
IssueSpecNext == IssueNext
SpecIssue == IssueSpecInit /\ [][IssueSpecNext]_vars

\* search_cafes on every batch the Places client can return
SearchSpecInit == RecIdle /\ StoreInit /\ TokenInit /\ SearchInit /\ AuthInit
SearchSpecNext == SearchNext
SpecSearch == SearchSpecInit /\ [][SearchSpecNext]_vars

\* the domain models on every pair of places and every price level
DomainSpecInit ==
    /\ RecIdle /\ StoreInit /\ TokenInit /\ AuthInit
    /\ latitude = 0 /\ longitude = 0 /\ results = <<>>
    /\ search_result = NoSearch /\ search_pc = "input"
    /\ DomainInit
    /\ HttpIdle
DomainSpecNext == DomainNext
SpecDomain == DomainSpecInit /\ [][DomainSpecNext]_vars

\* one search or recommendation request from arrival to response
RequestSpecInit ==
    /\ RecIdle /\ ServingInit /\ SearchIdle /\ AuthInit
RequestSpecNext == RequestNext
SpecRequest == RequestSpecInit /\ [][RequestSpecNext]_vars

\* concurrent searches
OriginsSpecInit ==
    /\ RecIdle /\ ServingInit /\ SearchIdle /\ AuthInit
OriginsSpecNext == OriginsNext
SpecOrigins == OriginsSpecInit /\ [][OriginsSpecNext]_vars

\* logins and guarded requests on the settled store
AuthSpecInit == RecIdle /\ SettledInit /\ TokenInit /\ SearchIdle /\ AuthInit
AuthSpecNext == AuthNext
SpecAuth == AuthSpecInit /\ [][AuthSpecNext]_vars

\* register, login and who-am-I requests from the start of the process
FlowSpecInit == RecIdle /\ StoreInit /\ TokenInit /\ SearchIdle /\ AuthInit
FlowSpecNext == FlowNext
SpecFlow == FlowSpecInit /\ [][FlowSpecNext]_vars

----------------------------------------------------------------------------
(* Properties of filter_and_rank_cafes (SpecRec) *)

Called == rec_pc = "done"
HasDistance(c) == Len(c.distance_meters) = 1

\* C1: with limit = 0 the call returns an empty list for every non-empty
\* input list, whatever min_rating and the price categories are.
C1_LimitZeroGivesEmpty ==
    (Called /\ limit = Some(0) /\ cafes # <<>>) => result = <<>>

\* C2: before truncation the result holds exactly the input places with
\* rating >= min_rating and, only when the price list is non-null and
\* non-empty, with a price category in it; a place at exactly min_rating is
\* kept.
C2_FilterKeepsExactly ==
    Called =>
      LET priceOn == allowed_price_ranges # None /\ allowed_price_ranges # Some({})
          kept == {i \in 1..Len(cafes) :
                     /\ cafes[i].rating >= min_rating
                     /\ priceOn => cafes[i].price_range \in allowed_price_ranges[1]}
      IN  /\ Len(sorted_cafes) = Cardinality(kept)
          /\ {sorted_cafes[j] : j \in 1..Len(sorted_cafes)} = {cafes[i] : i \in kept}

C2_Witness ==
    /\ Called
    /\ min_rating = 40
    /\ allowed_price_ranges = Some({"CHEAP"})
    /\ \E i \in 1..Len(cafes) : cafes[i].rating < 40
    /\ \E i \in 1..Len(cafes) :
          cafes[i].rating = 40 /\ cafes[i].price_range = "MEDIUM"
    /\ \E j \in 1..Len(sorted_cafes) : sorted_cafes[j].rating = 40

C4_Stable ==
    Called =>
      \A i, j \in 1..Len(result) :
        (/\ i < j
         /\ result[i].rating = result[j].rating
         /\ result[i].distance_meters = result[j].distance_meters)
        => \E a, b \in 1..Len(cafes) :
             a < b /\ cafes[a] = result[i] /\ cafes[b] = result[j]

C4_Witness ==
    /\ Called
    /\ Len(result) = 3
    /\ result[1].rating = 40 /\ result[2].rating = 40
    /\ result[1].distance_meters = None /\ result[2].distance_meters = None
    /\ result[1].id = 2 /\ result[2].id = 3

\* C5: for limit > 0 the call returns the first min(limit, n) elements of
\* the filtered and sorted sequence of length n.
C5_TruncatesToLimit ==
    (Called /\ limit # None /\ limit[1] > 0) =>
      /\ Len(result) <= limit[1]
      /\ Len(result) = (IF limit[1] <= Len(sorted_cafes) THEN limit[1]
                        ELSE Len(sorted_cafes))
      /\ \A i \in 1..Len(result) : result[i] = sorted_cafes[i]

C5_Witness ==
    /\ Called
    /\ limit = Some(1)
    /\ Len(sorted_cafes) = 3
    /\ result = <<sorted_cafes[1]>>

\* C25: the call leaves its input as it was: the input list has the same
\* places in the same order with the same fields, the arguments are
\* untouched, and the list it returns is not the caller's list object.
C25_InputNotMutated ==
    [][filter_and_rank_cafes =>
         /\ cafes' = cafes
         /\ Len(cafes') = Len(cafes)
         /\ \A i \in 1..Len(cafes) : cafes'[i] = cafes[i]
         /\ <<min_rating', allowed_price_ranges', limit'>>
              = <<min_rating, allowed_price_ranges, limit>>
         /\ result_ref' # Some(InputRef)]_vars

C25_Witness ==
    /\ Called
    /\ Len(cafes) = 3
    /\ Len(result) = 3
    /\ result # cafes
    /\ {result[i] : i \in 1..3} = {cafes[i] : i \in 1..3}

Count(s, x) == Cardinality({i \in 1..Len(s) : s[i] = x})

\* C26: every place of the result is a place of the input list, and no
\* place occurs in the result more often than in the input.
C26_ResultIsSubCollection ==
    Called =>
      \A j \in 1..Len(result) :
        /\ \E i \in 1..Len(cafes) : cafes[i] = result[j]
        /\ Count(result, result[j]) <= Count(cafes, result[j])

C26_Witness ==
    /\ Called
    /\ allowed_price_ranges = Some({"CHEAP"})
    /\ Len(cafes) = 3
    /\ Len(result) = 2
    /\ \E i \in 1..3 : cafes[i].price_range = "MEDIUM"

\* C27: a second call with the same min_rating, price categories and
\* limit, on the same input list or on the list the first call returned,
\* returns the list the first call returned, in the same order.
C27_Idempotent ==
    Called =>
      /\ ApplyLimit(Sorted(FilterCafes(cafes, min_rating,
                                       allowed_price_ranges)), limit) = result
      /\ ApplyLimit(Sorted(FilterCafes(result, min_rating,
                                       allowed_price_ranges)), limit) = result

C27_Witness ==
    /\ Called
    /\ limit = Some(2)
    /\ min_rating = 40
    /\ Len(sorted_cafes) = 3
    /\ Len(result) = 2
    /\ result[1].rating = result[2].rating
    /\ result[1].distance_meters = result[2].distance_meters
    /\ result # <<cafes[1], cafes[2]>>

----------------------------------------------------------------------------
(* Properties of the identity store (SpecStore, SpecUnit) *)

\* C6: of two concurrent registrations for the same lower-cased email at most
\* one succeeds.
C6_AtMostOneRegistrationSucceeds ==
    \A r1, r2 \in 1..MaxReqs :
      (/\ r1 # r2
       /\ reqs[r1].pc = "done" /\ reqs[r2].pc = "done"
       /\ Lower(reqs[r1].email) = Lower(reqs[r2].email))
      => ~(reqs[r1].status = 201 /\ reqs[r2].status = 201)

\* C7: create_user with an email whose lower-cased form is already a key of
\* the email index raises the duplicate error and leaves the id map and the
\* email index as they were, the first identity still found by email and by
\* id.
C7_DuplicateCreateFails ==
    [][ (/\ last_create' # last_create
         /\ last_create'.email \in Emails
         /\ \E k \in DOMAIN stores[1].email_index :
               k = Lower(last_create'.email))
        => /\ last_create'.raised
           /\ stores'[1].users = stores[1].users
           /\ stores'[1].email_index = stores[1].email_index
           /\ LET first == get_user_by_email(stores'[1], last_create'.email)
              IN  /\ first # None
                  /\ first[1].email = Lower(last_create'.email)
                  /\ get_user_by_id(stores'[1], first[1].id) = first
      ]_vars

C7_Witness ==
    /\ last_create.called
    /\ last_create.raised
    /\ last_create.email = <<"A", "b">>
    /\ DOMAIN stores[1].email_index = {<<"a", "b">>}
    /\ Cardinality(DOMAIN stores[1].users) = 1

----------------------------------------------------------------------------
(* Properties of verify_token (SpecToken) *)

\* the token of the last call carries a signature made with the configured
\* key and algorithm over the claims it shows
WellSigned(token) ==
    /\ token.form = "jwt"
    /\ token.key = JWT_SECRET_KEY
    /\ token.alg = JWT_ALGORITHM
    /\ ~token.tampered

C10_NeverRaises ==
    last_verify.called =>
      /\ ~last_verify.raised
      /\ (\/ last_verify.token.form # "jwt"
          \/ last_verify.token.tampered
          \/ last_verify.token.key # JWT_SECRET_KEY
          \/ /\ last_verify.token.claims.exp # None
             /\ last_verify.token.claims.exp[1] < last_verify.at)
         => last_verify.value = None

C10_Witness ==
    /\ last_verify.called
    /\ WellSigned(last_verify.token)
    /\ last_verify.token.claims.sub # None
    /\ last_verify.token.claims.exp # None
    /\ last_verify.token.claims.exp[1] < last_verify.at
    /\ ~last_verify.raised
    /\ last_verify.value = None

----------------------------------------------------------------------------
(* Properties of create_access_token (SpecIssue) *)

\* C11: for every identity, verify_token of the token create_access_token
\* made for it, called before the token's expiry, returns claims whose
\* subject id is the identity's id and whose email is the identity's email.
C11_VerifyReturnsIssuedIdentity ==
    \A rec \in issues :
      (/\ last_verify.called
       /\ last_verify.token = rec.token
       /\ last_verify.at < rec.token.claims.exp[1])
      => /\ last_verify.value # None
         /\ last_verify.value[1].user_id = rec.user.id
         /\ last_verify.value[1].email = Some(rec.user.email)

C11_Witness ==
    \E rec \in issues :
      /\ rec.user.id = "2"
      /\ rec.expires_delta = Some(1)
      /\ last_verify.called
      /\ last_verify.token = rec.token
      /\ last_verify.at < rec.token.claims.exp[1]
      /\ last_verify.value # None
      /\ last_verify.value[1].user_id = "2"

\* C12: every token create_access_token produces, with the default ttl or
\* with any ttl the caller passes, has an expires-at strictly after its
\* issued-at.
C12_ExpiryAfterIssuedAt ==
    \A rec \in issues :
      rec.token.claims.exp[1] > rec.token.claims.iat[1]

\* the ttl a call asks for, in seconds
RequestedTTL(expires_delta) ==
    IF expires_delta = None THEN ACCESS_TOKEN_EXPIRE_MINUTES * 60
    ELSE expires_delta[1]

\* C13: in every token create_access_token produces, expires-at minus
\* issued-at equals the ttl exactly, although the clock is read once for
\* expires-at and again for issued-at.
C13_ExpiryMinusIssuedAtIsTTL ==
    \A rec \in issues :
      rec.token.claims.exp[1] - rec.token.claims.iat[1]
        = RequestedTTL(rec.expires_delta)

----------------------------------------------------------------------------
(* Properties of the lookups of UserService (SpecUnit) *)

\* the emails and ids a lookup on the store finds
FoundEmails(store) == {v \in Emails : get_user_by_email(store, v) # None}
FoundIds(store) == {i \in LookupIds : get_user_by_id(store, i) # None}

\* C19: after create(email), get_user_by_email and user_exists with any case
\* variant of that email find that identity and get_user_by_id with its id
\* returns it; lookups of an email or id never created return nothing, and
\* lookups never change the store.
C19_LookupsFindWhatWasCreated ==
    /\ FoundEmails(stores[1]) = {} /\ FoundIds(stores[1]) = {}
    /\ [][
            /\ \A email \in Emails, password \in Passwords, salt \in Salts :
                CreateUser(1, email, password, salt) =>
                  IF last_create'.raised
                  THEN /\ FoundEmails(stores'[1]) = FoundEmails(stores[1])
                       /\ FoundIds(stores'[1]) = FoundIds(stores[1])
                  ELSE /\ FoundEmails(stores'[1]) =
                            FoundEmails(stores[1]) \cup
                            {v \in Emails : Lower(v) = Lower(email)}
                       /\ FoundIds(stores'[1]) =
                            FoundIds(stores[1]) \cup {FreshId(next_id)}
                       /\ \A v \in Emails :
                            Lower(v) = Lower(email) =>
                              /\ user_exists(stores'[1], v)
                              /\ get_user_by_email(stores'[1], v)[1].email
                                    = Lower(email)
                              /\ get_user_by_email(stores'[1], v)[1].id
                                    = FreshId(next_id)
                              /\ get_user_by_id(stores'[1], FreshId(next_id))
                                    = get_user_by_email(stores'[1], v)
            /\ \A email \in Emails :
                GetUserByEmail(1, email) =>
                  /\ stores' = stores
                  /\ (last_lookup'.user # None) = (email \in FoundEmails(stores[1]))
            /\ \A email \in Emails :
                UserExists(1, email) =>
                  /\ stores' = stores
                  /\ last_lookup'.found = (email \in FoundEmails(stores[1]))
            /\ \A user_id \in LookupIds :
                GetUserById(1, user_id) =>
                  /\ stores' = stores
                  /\ (last_lookup'.user # None) = (user_id \in FoundIds(stores[1]))
                  /\ last_lookup'.user # None => last_lookup'.user[1].id = user_id
          ]_vars

C19_Witness ==
    /\ last_create.called /\ ~last_create.raised
    /\ last_create.email = <<"a", "b">>
    /\ last_lookup.op = "get_user_by_email"
    /\ last_lookup.email = <<"A", "b">>
    /\ last_lookup.user # None
    /\ last_lookup.user[1].email = <<"a", "b">>
    /\ get_user_by_id(stores[1], last_lookup.user[1].id) = last_lookup.user
    /\ get_user_by_email(stores[1], <<"b", "a">>) = None

----------------------------------------------------------------------------
(* Properties of search_cafes (SpecSearch) *)

\* a raw record can be mapped: identifier and name not empty, rating within
\* 0.0 .. 5.0 and coordinates within their ranges, a missing key counting
\* as its default
Mappable(raw) ==
    /\ raw.place_id # None /\ raw.place_id # Some("")
    /\ raw.name # Some("")
    /\ raw.rating = None \/ (raw.rating[1] >= 0 /\ raw.rating[1] <= 50)
    /\ raw.lat = None \/ (raw.lat[1] >= 0 - 90 /\ raw.lat[1] <= 90)
    /\ raw.lng = None \/ (raw.lng[1] >= 0 - 180 /\ raw.lng[1] <= 180)

\* C20: mapping a batch is non-fatal per record: search_cafes returns, in
\* input order, one place for every raw record that can be mapped, and a
\* record that cannot be mapped is skipped without aborting the batch and
\* without an error reaching the caller.
C20_BatchMappingSkipsBadRecords ==
    (search_pc = "done" /\ search_result.raised # "GooglePlacesAPIError") =>
      LET good == SelectSeq(results, Mappable)
      IN  /\ search_result.raised = ""
          /\ Len(search_result.cafes) = Len(good)
          /\ \A i \in 1..Len(good) :
                /\ search_result.cafes[i].id = good[i].place_id[1]
                /\ search_result.cafes[i].rating =
                      (IF good[i].rating = None THEN 0 ELSE good[i].rating[1])

C20_Witness ==
    /\ search_pc = "done"
    /\ Len(results) = 2
    /\ results[1].rating = Some(51)
    /\ Mappable(results[2])
    /\ results[2].rating = Some(50)
    /\ search_result.raised = ""
    /\ Len(search_result.cafes) = 1
    /\ search_result.cafes[1].id = results[2].place_id[1]

----------------------------------------------------------------------------
(* Properties of the guards and of login (SpecAuth) *)

\* what a request can present to a guard in the current state
Presentable == GuardCredentials \cup {Some(t) : t \in issued}

\* the store object the handlers are given
TheStore == stores[user_service_instance[1]]

\* C14: get_current_user yields an identity only when the bearer token
\* verifies and the identity whose id is the token's subject exists in the
\* store and is active at the time of the request; the identity yielded is
\* exactly that one, and for a token a login returned it is the identity
\* that logged in.
C14_GuardYieldsOnlyTheSubject ==
    [][ \A credentials \in Presentable :
          (GetMe(credentials) /\ last_guard'.status = 200) =>
            /\ credentials # None
            /\ WellSigned(credentials[1])
            /\ credentials[1].claims.exp # None
            /\ now <= credentials[1].claims.exp[1]
            /\ credentials[1].claims.sub # None
            /\ credentials[1].claims.sub[1] \in DOMAIN TheStore.users
            /\ LET subject == TheStore.users[credentials[1].claims.sub[1]]
               IN  /\ subject.id = credentials[1].claims.sub[1]
                   /\ subject.is_active
                   /\ last_guard'.user = Some(subject)
            /\ \A rec \in issues :
                  rec.token = credentials[1] =>
                    /\ last_guard'.user[1].id = rec.user.id
                    /\ last_guard'.user[1].email = rec.user.email
      ]_vars

C14_Witness ==
    /\ last_guard.called
    /\ last_guard.variant = "required"
    /\ last_guard.status = 200
    /\ last_guard.user # None
    /\ last_guard.user[1].id = FreshId(2)
    /\ last_guard.credentials[1] \in issued
    /\ Cardinality(DOMAIN TheStore.users) = 2
    /\ ~TheStore.users[FreshId(1)].is_active

\* a guarded request was rejected
Rejected(g) == g.called /\ g.variant = "required" /\ g.status # 200

\* C15: the guard rejects a request with no token, with an invalid token,
\* with a token whose subject is not in the store and with a token whose
\* subject is inactive by one uniform rejection: any two rejections, one
\* after the other, have the same status and the same detail.
C15_UniformRejection ==
    [][ (Rejected(last_guard) /\ Rejected(last_guard')) =>
          /\ last_guard'.status = last_guard.status
          /\ last_guard'.detail = last_guard.detail
      ]_vars

\* C16: a failed login returns the same failure whether the email is unknown
\* or the password is wrong, for every identity in the store: a login with a
\* registered email and a wrong password answers what the same login
\* answers on a store that does not hold the email.
C16_LoginFailureRevealsNothing ==
    [][ \A email \in AuthLoginEmails, password \in Passwords :
          (/\ Login(email, password, now)
           /\ get_user_by_email(TheStore, email) # None
           /\ get_user_by_email(TheStore, email)[1].hashed_password[3]
                 # password)
          => /\ last_login'.status = login(EmptyStore, email, password,
                                           now, now).status
             /\ last_login'.detail = login(EmptyStore, email, password,
                                           now, now).detail
      ]_vars

\* C17: get_current_user_optional never rejects the request: it returns no
\* identity when no token is supplied, when the token is invalid, when the
\* subject is unknown or inactive, and returns the identity in exactly the
\* cases where get_current_user would yield it.
C17_OptionalNeverRejects ==
    [][ \A credentials \in Presentable :
          GetOptionalUser(credentials) =>
            LET required == get_current_user(credentials, TheStore, now)
            IN  /\ last_guard'.status = 200
                /\ required.status = 200 => last_guard'.user = required.user
                /\ required.status # 200 => last_guard'.user = None
                /\ credentials = None => last_guard'.user = None
                /\ credentials \in {Some(Garbage), Some(StaleToken),
                                    Some(PastToken)}
                      => last_guard'.user = None
                /\ last_guard'.user # None => last_guard'.user[1].is_active
      ]_vars

C17_Witness ==
    /\ last_guard.called
    /\ last_guard.variant = "optional"
    /\ last_guard.status = 200
    /\ last_guard.user = None
    /\ last_guard.credentials # None
    /\ last_guard.credentials[1] \in issued
    /\ ~TheStore.users[last_guard.credentials[1].claims.sub[1]].is_active

----------------------------------------------------------------------------
(* Properties of the register, login, who-am-I flow (SpecFlow) *)

\* request r registered the lower-cased form of email with this password
Registered(r, email, password) ==
    /\ reqs[r].pc = "done"
    /\ reqs[r].status = 201
    /\ Lower(reqs[r].email) = Lower(email)
    /\ stores[reqs[r].svc].users[reqs[r].user_id].hashed_password[3] = password

\* C18: after a successful register(email, password), a login with the same
\* credentials, the email in any case variant, succeeds, and the who-am-I
\* call with the token it returned returns the identity that registration
\* created: the same id, and the registered email in lower case.
C18_RegisterLoginWhoAmI ==
    [][ /\ \A email \in Emails, password \in Passwords, t2 \in Times :
              (/\ Login(email, password, t2)
               /\ \E r \in 1..MaxReqs : Registered(r, email, password))
              => /\ last_login'.status = 200
                 /\ last_login'.access_token # None
        /\ \A credentials \in {Some(t) : t \in issued} :
              (/\ GetMe(credentials)
               /\ last_login.called
               /\ last_login.status = 200
               /\ last_login.access_token = credentials)
              => \A r \in 1..MaxReqs :
                   Registered(r, last_login.email, last_login.password) =>
                     /\ last_guard'.status = 200
                     /\ last_guard'.user # None
                     /\ last_guard'.user[1].id = reqs[r].user_id
                     /\ last_guard'.user[1].email = Lower(reqs[r].email)
      ]_vars

----------------------------------------------------------------------------
(* Properties of the two indexes of UserService (SpecUnit) *)

\* the email index and the id map of a store describe the same identities
IndexesAgree(store) ==
    /\ \A k \in DOMAIN store.email_index :
         /\ k = [i \in DOMAIN k |-> LowerChar(k[i])]
         /\ store.email_index[k] \in DOMAIN store.users
         /\ store.users[store.email_index[k]].email = k
    /\ \A uid \in DOMAIN store.users :
         /\ store.users[uid].id = uid
         /\ Cardinality({k \in DOMAIN store.email_index :
                           store.email_index[k] = uid}) = 1

\* C30: after any sequence of create and lookup calls every key of the
\* email index is lower-case and maps to an id of the id map whose identity
\* has that email, every identity of the id map has exactly one email key,
\* and an identity once created is never removed or replaced.
C30_IndexesAgree ==
    /\ [](IndexesAgree(stores[1]))
    /\ [][\A uid \in DOMAIN stores[1].users :
            /\ uid \in DOMAIN stores'[1].users
            /\ stores'[1].users[uid] = stores[1].users[uid]]_vars

C30_Witness ==
    /\ Cardinality(DOMAIN stores[1].users) = 2
    /\ <<"a", "b">> \in DOMAIN stores[1].email_index
    /\ stores[1].users[stores[1].email_index[<<"a", "b">>]].id = "2"
    /\ last_create.called /\ last_create.raised
    /\ last_create.email = <<"A", "b">>
    /\ last_lookup.op = "get_user_by_email"

----------------------------------------------------------------------------
(* Properties of the login endpoint as a whole (SpecAuth) *)

\* the stored identities a login with this email and password is for: the
\* email names them, they are active, and their digest is of the password
LoginSubjects(store, email, password) ==
    {uid \in DOMAIN store.users :
       /\ store.users[uid].email = [i \in DOMAIN email |-> LowerChar(email[i])]
       /\ store.users[uid].is_active
       /\ store.users[uid].hashed_password[3] = password}

\* C29: a login issues a token only when the email resolves to a stored
\* identity that is active and whose stored hash verifies the password, and
\* the token is that identity's; every other login issues no token; no
\* login, successful or not, changes the identity store.
C29_TokenOnlyForVerifiedIdentity ==
    [][LET email == last_login'.email
           password == last_login'.password
       IN
         (/\ last_login'.called
          /\ last_guard' = last_guard
          /\ \E t2 \in {now, now + 1} : Login(email, password, t2)) =>
           LET subjects == LoginSubjects(TheStore, email, password)
           IN  /\ (last_login'.access_token # None) <=> (subjects # {})
               /\ subjects = {} => issued' = issued
               /\ subjects # {} =>
                    /\ last_login'.access_token[1].claims.sub[1] \in subjects
                    /\ issued' = issued \cup {last_login'.access_token[1]}
               /\ stores' = stores
               /\ user_service_instance' = user_service_instance
               /\ next_id' = next_id
      ]_vars

C29_Witness ==
    /\ last_login.called
    /\ last_login.status = 200
    /\ last_login.access_token # None
    /\ last_login.access_token[1].claims.sub = Some("1")
    /\ Cardinality(DOMAIN TheStore.users) = 2
    /\ ~TheStore.users["2"].is_active
    /\ issued = {last_login.access_token[1]}

----------------------------------------------------------------------------
(* Properties of the domain models (SpecDomain) *)

\* C21: two places are equal exactly when their ids are equal: the same id
\* makes them equal whatever name, address or price category they carry,
\* and different ids make them unequal even when every other field matches.
C21_EqualityByIdAlone ==
    eq_result # None => (eq_result[1] <=> (eq_self.id = eq_other.id))

\* the price categories
Categories == {"CHEAP", "MEDIUM", "HIGH", "VERY_HIGH", "LUXURY", "UNKNOWN"}

----------------------------------------------------------------------------
(* Properties of the search and recommendation endpoints
   (SpecRequest, SpecOrigins) *)

\* the place lookup failed: no answer, an answer that is not 200, or a
\* provider status that is neither OK nor ZERO_RESULTS
LookupFailed(response) ==
    \/ response.transport = "error"
    \/ response.status_code # 200
    \/ ~(response.status = "OK" \/ response.status = "ZERO_RESULTS")

\* the lookup succeeded with no record
ZeroRecords(response) ==
    /\ ~LookupFailed(response)
    /\ response.status = "ZERO_RESULTS" \/ response.results = <<>>

AuthFails(req) ==
    \/ req.credentials = None
    \/ req.credentials # None /\ req.credentials[1] \notin issued

\* a query parameter of the request is invalid
ParamInvalid(req) ==
    \/ req.lat > 90
    \/ /\ req.price_range # None
       /\ \E i \in DOMAIN req.price_range[1] :
            req.price_range[1][i] = "invalid_price"

C24_DistanceFromOwnOrigin ==
    \A r \in 1..MaxInFlight :
      requests[r].status = 200 =>
        \A i \in 1..Len(requests[r].cafes) :
          LET cafe == requests[r].cafes[i]
              dlat == cafe.location.latitude - requests[r].lat
          IN  /\ cafe.distance_meters # None
              /\ cafe.location.longitude = requests[r].lng
              /\ cafe.distance_meters[1]
                   = 111195 * (IF dlat < 0 THEN 0 - dlat ELSE dlat)

C24_Witness ==
    /\ requests[1].status = 200 /\ requests[2].status = 200
    /\ requests[1].lat = 0 /\ requests[2].lat = 45
    /\ requests[1].upstream = requests[2].upstream
    /\ Len(requests[1].cafes) = 2
    /\ requests[1].cafes[1].distance_meters = Some(111195 * 90)
    /\ requests[2].cafes[1].distance_meters = Some(111195 * 45)
    /\ requests[1].cafes[2].distance_meters = Some(0)
    /\ requests[2].cafes[2].distance_meters = Some(111195 * 45)

====
